---- MODULE Spec2Model ----
(***************************************************************************)
(* Model of WickelfeaturesProject/lib.py: phone feature coding, padding,   *)
(* nearest-array lookup, the greedy decoding loop, the data frame of       *)
(* decodings and the cross-validation loop.                                *)
(*                                                                         *)
(* Representation.  A Python str is a sequence of one-character strings.   *)
(* A numpy vector is a sequence of integers.  Feature codes are the        *)
(* integers 0 and 1.  Real-valued vectors (decoder outputs, phone arrays)  *)
(* are fixed point: the real number x is the integer x * One.              *)
(***************************************************************************)
EXTENDS Integers, Sequences, FiniteSets, TLC

VARIABLES
  phones,        \* Files/phones.pickle: phone -> collection of feature names
  phone_arrays,  \* Files/phone_arrays.pickle: <<phone, array>> in iteration order
  lookup,        \* Files/lookup.pickle: phone -> array
  pc,            \* position of the running operation
  arg,           \* argument of the operation that acted last
  ret,           \* value returned by the operation that acted last
  encoder,       \* encoder model: encoder.predict as a function
  decoder,       \* decoder model: decoder.predict as a function
  omega,         \* renormalization vector, entries <<numerator, denominator>>
  renormalize,   \* renormalize flag
  seq,           \* the array given to decode_sequences: [ndim, data]
  idx,           \* position of the comprehension of decode_sequences in seq
  ls,            \* locals of the running decode_sequence
  results,       \* pairs returned so far by decode_sequence
  cv,            \* kfold: the <<i_train, i_test>> pairs of cv.split
  fold,          \* kfold: position of the for loop in cv
  trained,       \* kfold: what train returned for the current fold
  all_decodings, \* kfold: the accumulated data frame
  runs           \* kfold: the train and decoder calls made so far

files == <<phones, phone_arrays, lookup>>
models == <<encoder, decoder, omega, renormalize>>
decoding == <<seq, idx, ls, results>>
folding == <<cv, fold, trained, all_decodings, runs>>
vars == <<phones, phone_arrays, lookup, pc, arg, ret,
          encoder, decoder, omega, renormalize, seq, idx, ls, results,
          cv, fold, trained, all_decodings, runs>>

None == "none"

\* No decode_sequence has been entered.
NoLocals == [raised |-> None]

\* Nothing returned yet.
NoValue == <<>>

NoFolding ==
  /\ cv = <<>> /\ fold = 0 /\ trained = None
  /\ all_decodings = <<>> /\ runs = <<>>

NoDecoding ==
  /\ encoder = None /\ decoder = None /\ omega = None /\ renormalize = None
  /\ seq = None /\ idx = 0 /\ ls = NoLocals /\ results = <<>>
  /\ NoFolding

(***************************************************************************)
(* Bounds of the explored inputs.                                          *)
(***************************************************************************)
MaxVerbLen == 2
MaxRows == 2

\* F applied to v, with v evaluated once, before F is entered.
Strict(v, F(_)) == CHOOSE y \in {F(x) : x \in {v}} : TRUE

\* Largest element of a non-empty set of integers.
Max(S) == CHOOSE m \in S : \A x \in S : x <= m

\* All sequences over S of length lo..hi.
SeqsOf(S, lo, hi) == UNION {[1..n -> S] : n \in lo..hi}

(***************************************************************************)
(* features(), code(), code_verb()                                         *)
(***************************************************************************)
features ==
  << "oclusiva", "nasal", "tepe", "fricativa", "l-aprox", "bilabial",
     "labiodental", "alveolar", "p-alveolar", "palatal", "velar", "glotal",
     "vozeada", "fechada", "m-fechada", "m-aberta", "aberta", "anterior",
     "posterior", "beg", "end" >>

\* np.zeros(21)
zeros21 == [i \in 1..21 |-> 0]

\* The loop of code(): one append per item of fts, in order.
RECURSIVE code_loop_swapped(_, _, _)
code_loop_swapped(listed, fts, array) ==
  IF fts = <<>> THEN array
  ELSE code_loop_swapped(listed, Tail(fts),
                         <<IF Head(fts) \in listed THEN 1 ELSE 0>> \o array)

RECURSIVE code_loop(_, _, _)
code_loop(listed, fts, array) ==
  IF fts = <<>> THEN array
  ELSE code_loop(listed, Tail(fts),
                 Append(array, IF Head(fts) \in listed THEN 1 ELSE 0))

code(phone) == code_loop(phones[phone], features, <<>>)

RECURSIVE code_verb_loop(_, _)
code_verb_loop(verb, coded) ==
  IF verb = <<>> THEN coded
  ELSE code_verb_loop(Tail(verb), Append(coded, code(Head(verb))))

code_verb(verb) == code_verb_loop(verb, <<>>)

(***************************************************************************)
(* keras pad_sequences(sequences, value=np.zeros(21), padding=...), with   *)
(* maxlen left to default: the length of the longest sequence.             *)
(***************************************************************************)
ZeroRows(n) == [i \in 1..n |-> zeros21]

pad_sequences_always_post(sequences, padding) ==
  LET maxlen == Max({Len(sequences[r]) : r \in DOMAIN sequences})
  IN  [r \in DOMAIN sequences |->
         sequences[r] \o ZeroRows(maxlen - Len(sequences[r]))]

pad_sequences(sequences, padding) ==
  LET maxlen == Max({Len(sequences[r]) : r \in DOMAIN sequences})
  IN  [r \in DOMAIN sequences |->
         IF padding = "pre"
         THEN ZeroRows(maxlen - Len(sequences[r])) \o sequences[r]
         ELSE sequences[r] \o ZeroRows(maxlen - Len(sequences[r]))]

(***************************************************************************)
(* preprocessing(corpus).  A corpus is a sequence of rows                  *)
(* <<v_inf, target, class>>.  omega[i] is the rational                     *)
(* 2 * mean_i + 0.001 kept as <<numerator, denominator>>.                  *)
(***************************************************************************)
RECURSIVE SumSeq(_)
SumSeq(s) == IF s = <<>> THEN 0 ELSE Head(s) + SumSeq(Tail(s))

ColumnSum(padded, i) ==
  SumSeq([r \in DOMAIN padded |->
            SumSeq([t \in DOMAIN padded[r] |-> padded[r][t][i]])])

Omega(padded) ==
  LET cells == Len(padded) * Len(padded[1])
  IN  [i \in 1..21 |->
         <<2000 * ColumnSum(padded, i) + cells, 1000 * cells>>]

preprocessing(corpus) ==
  LET coded_in  == [r \in DOMAIN corpus |-> code_verb(corpus[r][1])]
      coded_out == [r \in DOMAIN corpus |-> code_verb(corpus[r][2])]
      coded_out_target ==
        [r \in DOMAIN corpus |-> Append(Tail(coded_out[r]), zeros21)]
      padded_in  == pad_sequences(coded_in, "pre")
      padded_out == pad_sequences(coded_out, "post")
      padded_out_target == pad_sequences(coded_out_target, "post")
  IN  [coded_in |-> coded_in, coded_out |-> coded_out,
       coded_out_target |-> coded_out_target,
       padded_in |-> padded_in, padded_out |-> padded_out,
       padded_out_target |-> padded_out_target,
       omega |-> Omega(padded_out)]

(***************************************************************************)
(* Inputs of the coding operations.                                        *)
(***************************************************************************)
PhoneKeys == {"#", "a"}

\* Feature collections a phone may list; "silence" is not a name of features().
FeatureLists ==
  { {"oclusiva", "bilabial"}, {"nasal", "end", "silence"} }

PhoneTables == [PhoneKeys -> FeatureLists]

Verbs == SeqsOf(PhoneKeys, 1, MaxVerbLen)

\* A target is its infinitive after the start character, or that character alone.
CodingRows ==
  UNION { {<<v, <<"#">> \o v, "regular">>, <<v, <<"#">>, "regular">>} :
          v \in Verbs }

CodingCorpora == SeqsOf(CodingRows, 1, MaxRows)

InitCode ==
  /\ phones \in PhoneTables
  /\ phone_arrays = <<>>
  /\ lookup = <<>>
  /\ pc = "idle"
  /\ arg = None
  /\ ret = None
  /\ NoDecoding

CallCode ==
  /\ pc = "idle"
  /\ \E phone \in DOMAIN phones :
    /\ pc' = "code"
    /\ arg' = phone
    /\ ret' = code(phone)
    /\ UNCHANGED <<files, models, decoding, folding>>

CallPreprocessing ==
  /\ pc = "idle"
  /\ \E corpus \in CodingCorpora :
    /\ pc' = "preprocessing"
    /\ arg' = corpus
    /\ ret' = preprocessing(corpus)
    /\ UNCHANGED <<files, models, decoding, folding>>

NextCode == CallCode \/ CallPreprocessing

SpecCode == InitCode /\ [][NextCode]_vars

(***************************************************************************)
(* C4: code(phone) has exactly 21 entries, each 0 or 1, and entry i is 1   *)
(* exactly when the i-th name of features() is listed for the phone.       *)
(***************************************************************************)
CodeIsFeatureIndicator ==
  pc = "code" =>
    /\ Len(ret) = 21
    /\ Len(features) = 21
    /\ \A i \in 1..21 :
         /\ ret[i] \in {0, 1}
         /\ (ret[i] = 1) <=> (features[i] \in phones[arg])

\* code() has returned for a phone that lists some features and lacks others.
CodeReturnedMixed ==
  /\ pc = "code"
  /\ \E i, j \in 1..21 : i < j /\ ret[i] = 1 /\ ret[j] = 0
  /\ \E i, j \in 1..21 : i < j /\ ret[i] = 0 /\ ret[j] = 1

(***************************************************************************)
(* C9: preprocessing pads with all-zero rows up to the longest sequence of *)
(* the column, keeps the original rows in place and order, pads the inputs *)
(* in front and the decoder input and target at the end, and the padded    *)
(* decoder input and target of a verb have the same length.                *)
(***************************************************************************)
IsPrePadded(padded, coded, maxlen) ==
  LET n == maxlen - Len(coded)
  IN  /\ Len(padded) = maxlen
      /\ \A t \in 1..n : padded[t] = zeros21
      /\ \A t \in 1..Len(coded) : padded[n + t] = coded[t]

IsPostPadded(padded, coded, maxlen) ==
  /\ Len(padded) = maxlen
  /\ \A t \in 1..Len(coded) : padded[t] = coded[t]
  /\ \A t \in (Len(coded) + 1)..maxlen : padded[t] = zeros21

LongestOf(column) == Max({Len(column[r]) : r \in DOMAIN column})

PaddingKeepsRows ==
  pc = "preprocessing" =>
    /\ DOMAIN ret.padded_in = DOMAIN arg
    /\ DOMAIN ret.padded_out = DOMAIN arg
    /\ DOMAIN ret.padded_out_target = DOMAIN arg
    /\ \A r \in DOMAIN arg :
         /\ IsPrePadded(ret.padded_in[r], ret.coded_in[r],
                        LongestOf(ret.coded_in))
         /\ IsPostPadded(ret.padded_out[r], ret.coded_out[r],
                         LongestOf(ret.coded_out))
         /\ IsPostPadded(ret.padded_out_target[r], ret.coded_out_target[r],
                         LongestOf(ret.coded_out_target))
         /\ Len(ret.padded_out[r]) = Len(ret.padded_out_target[r])

\* preprocessing has returned for a corpus in which an infinitive and a
\* target are shorter than the longest of their column, with nonzero codes.
PaddingHappened ==
  /\ pc = "preprocessing"
  /\ \E r \in DOMAIN arg :
       /\ Len(ret.coded_in[r]) < Len(ret.padded_in[r])
       /\ Len(ret.coded_out[r]) < Len(ret.padded_out[r])
       /\ ret.coded_in[r][1] # zeros21
       /\ ret.coded_out[r][1] # zeros21

(***************************************************************************)
(* find_closest_array(predicted).  distance.euclidean is a square root, so *)
(* dst < min_dst is decided on the squares; min_dst starts at 10000.       *)
(***************************************************************************)
One == 2

MinDstStart == 10000

SqDist(u, v) == SumSeq([i \in DOMAIN u |-> (u[i] - v[i]) * (u[i] - v[i])])

RECURSIVE find_loop_last(_, _, _, _)
find_loop_last(predicted, table, min_sq, candidate) ==
  IF table = <<>> THEN candidate
  ELSE LET dst_sq == SqDist(predicted, Head(table)[2])
       IN  IF dst_sq <= min_sq
           THEN find_loop_last(predicted, Tail(table), dst_sq, Head(table)[1])
           ELSE find_loop_last(predicted, Tail(table), min_sq, candidate)

RECURSIVE find_loop(_, _, _, _)
find_loop(predicted, table, min_sq, candidate) ==
  IF table = <<>> THEN candidate
  ELSE LET dst_sq == SqDist(predicted, Head(table)[2])
       IN  IF dst_sq < min_sq
           THEN find_loop(predicted, Tail(table), dst_sq, Head(table)[1])
           ELSE find_loop(predicted, Tail(table), min_sq, candidate)

find_closest_array(predicted) ==
  find_loop(predicted, phone_arrays,
            (MinDstStart * One) * (MinDstStart * One), "")

(***************************************************************************)
(* Inputs of find_closest_array: tables of up to MaxTable phones with      *)
(* arrays of FindDim binary entries, predicted vectors near and far.       *)
(***************************************************************************)
MaxTable == 2
FindDim == 2

FindKeys == {"#", "a", "b"}

FarAway == (MinDstStart + 1) * One

Injective(f) == \A i, j \in DOMAIN f : f[i] = f[j] => i = j

FindTables ==
  UNION { { [k \in 1..n |-> <<keys[k], arrays[k]>>] :
              keys \in {f \in [1..n -> FindKeys] : Injective(f)},
              arrays \in [1..n -> [1..FindDim -> {0, One}]] } :
          n \in 1..MaxTable }

Predicted == [1..FindDim -> {0, 1, One, FarAway}]

InitFind ==
  /\ phones = <<>>
  /\ phone_arrays \in FindTables
  /\ lookup = <<>>
  /\ pc = "idle"
  /\ arg = None
  /\ ret = None
  /\ NoDecoding

CallFind ==
  /\ pc = "idle"
  /\ \E predicted \in Predicted :
       /\ pc' = "find"
       /\ arg' = predicted
       /\ ret' = find_closest_array(predicted)
       /\ UNCHANGED <<files, models, decoding, folding>>

NextFind == CallFind

SpecFind == InitFind /\ [][NextFind]_vars

(***************************************************************************)
(* C3: for every predicted vector and non-empty table, find_closest_array  *)
(* returns a key whose array is at minimum distance from the predicted     *)
(* vector, the first such key in the table's iteration order.              *)
(***************************************************************************)
IsFirstClosest(k, predicted, table) ==
  /\ \A j \in DOMAIN table :
       SqDist(predicted, table[j][2]) >= SqDist(predicted, table[k][2])
  /\ \A j \in 1..(k - 1) :
       SqDist(predicted, table[j][2]) > SqDist(predicted, table[k][2])

FindReturnsFirstClosest ==
  (pc = "find" /\ phone_arrays # <<>>) =>
    \E k \in DOMAIN phone_arrays :
      /\ ret = phone_arrays[k][1]
      /\ IsFirstClosest(k, arg, phone_arrays)

\* The same, for predicted vectors with some array nearer than 10000.
FindReturnsFirstClosestWhenNear ==
  (/\ pc = "find"
   /\ \E j \in DOMAIN phone_arrays :
        SqDist(arg, phone_arrays[j][2])
          < (MinDstStart * One) * (MinDstStart * One)) =>
    \E k \in DOMAIN phone_arrays :
      /\ ret = phone_arrays[k][1]
      /\ IsFirstClosest(k, arg, phone_arrays)

\* find_closest_array has returned for a table with two arrays at the same
\* minimum distance from the predicted vector.
FindReturnedOnTie ==
  /\ pc = "find"
  /\ \E j, k \in DOMAIN phone_arrays :
       /\ j < k
       /\ SqDist(arg, phone_arrays[j][2]) = SqDist(arg, phone_arrays[k][2])
       /\ IsFirstClosest(j, arg, phone_arrays)

(***************************************************************************)
(* decode_sequence(input_seq, encoder, decoder, omega, renormalize).       *)
(* A model is the function its predict computes.  The locals of the        *)
(* function are a record; enc_calls and dec_calls list the predict calls   *)
(* made so far with their arguments and results.                           *)
(***************************************************************************)
max_decoder_seq_length_longer == 13 + 1

max_decoder_seq_length == 13

\* v.reshape(1, 1, -1)
Reshape11(v) == <<<<v>>>>

\* s.reshape(1, *s.shape)
Reshape1(s) == <<s>>

\* x / omega, entry by entry
DivideBy(x, w) == [i \in DOMAIN x |-> (x[i] * w[i][2]) \div w[i][1]]

\* decoded_verb += sampled_phone
StrCat(verb, phone) == IF phone = "" THEN verb ELSE Append(verb, phone)

\* decoded_verb[:-1]
DropLast(verb) == SubSeq(verb, 1, Len(verb) - 1)

\* Lines 166-182: the state at the head of the sampling loop.
LoopEntry(input_seq, enc) ==
  [states_value |-> enc[input_seq],
   target_seq |-> Reshape11(lookup["#"]),
   stop_condition |-> FALSE,
   decoded_verb |-> <<>>,
   fts |-> <<>>,
   raised |-> None,
   enc_calls |-> <<input_seq>>,
   dec_calls |-> <<>>]

\* Lines 184-205 with the states never updated.
LoopBodyStaleStates(l, dec, om, renorm) ==
  LET input == <<l.target_seq>> \o l.states_value
      out == dec[input]
      output_phones == out[1]
      last == output_phones[1][Len(output_phones[1])]
      sampled_phone == IF renorm
                       THEN find_closest_array(DivideBy(last, om))
                       ELSE find_closest_array(last)
      decoded_verb == StrCat(l.decoded_verb, sampled_phone)
      called == [l EXCEPT
                   !.fts = Append(@, output_phones),
                   !.dec_calls = Append(@, [input |-> input, output |-> out,
                                            sampled_phone |-> sampled_phone])]
  IN  IF sampled_phone \notin DOMAIN lookup
      THEN [called EXCEPT !.raised = "KeyError"]
      ELSE [called EXCEPT
              !.decoded_verb = decoded_verb,
              !.stop_condition =
                 (sampled_phone = "#"
                    \/ Len(decoded_verb) > max_decoder_seq_length),
              !.target_seq = Reshape11(lookup[sampled_phone])]

\* Lines 184-205: one pass of the sampling loop.
LoopBody(l, dec, om, renorm) ==
  LET input == <<l.target_seq>> \o l.states_value
      out == dec[input]
      output_phones == out[1]
      h == out[2]
      c == out[3]
      last == output_phones[1][Len(output_phones[1])]
      sampled_phone == IF renorm
                       THEN find_closest_array(DivideBy(last, om))
                       ELSE find_closest_array(last)
      decoded_verb == StrCat(l.decoded_verb, sampled_phone)
      called == [l EXCEPT
                   !.fts = Append(@, output_phones),
                   !.dec_calls = Append(@, [input |-> input, output |-> out,
                                            sampled_phone |-> sampled_phone])]
  IN  IF sampled_phone \notin DOMAIN lookup
      THEN [called EXCEPT !.raised = "KeyError"]
      ELSE [called EXCEPT
              !.decoded_verb = decoded_verb,
              !.stop_condition =
                 (sampled_phone = "#"
                    \/ Len(decoded_verb) > max_decoder_seq_length),
              !.target_seq = Reshape11(lookup[sampled_phone]),
              !.states_value = <<h, c>>]

\* Line 207 with the whole decoded verb returned.
LoopResultWhole(l) == <<l.fts, l.decoded_verb>>

\* Line 207: return fts, decoded_verb[:-1]
LoopResult(l) == <<l.fts, DropLast(l.decoded_verb)>>

RECURSIVE RunLoop(_, _, _, _)
RunLoop(l, dec, om, renorm) ==
  IF l.stop_condition \/ l.raised # None THEN l
  ELSE Strict(LoopBody(l, dec, om, renorm),
              LAMBDA next : RunLoop(next, dec, om, renorm))

\* The value returned, or the name of the exception raised.
decode_sequence(input_seq, enc, dec, om, renorm) ==
  Strict(RunLoop(LoopEntry(input_seq, enc), dec, om, renorm),
         LAMBDA l : IF l.raised # None THEN l.raised ELSE LoopResult(l))

(***************************************************************************)
(* decode_sequences(seq, encoder, decoder, omega, renormalize), one step   *)
(* per predict call of the decoder.                                        *)
(***************************************************************************)
\* zip(*pairs) with the pairs taken last to first
ZipReversed(pairs) ==
  IF pairs = <<>> THEN <<>>
  ELSE [j \in 1..2 |-> [k \in DOMAIN pairs |-> pairs[Len(pairs) + 1 - k][j]]]

\* zip(*pairs), consumed into a tuple of tuples
Zip(pairs) ==
  IF pairs = <<>> THEN <<>>
  ELSE [j \in 1..2 |-> [k \in DOMAIN pairs |-> pairs[k][j]]]

CallDecodeSequences ==
  /\ pc = "idle"
  /\ pc' = IF seq.ndim = 3 THEN "for_s" ELSE "else"
  /\ idx' = 1
  /\ UNCHANGED <<files, models, arg, ret, seq, ls, results, folding>>

\* The comprehension of line 227 takes the next s of seq.
EnterFromComprehension ==
  /\ pc = "for_s"
  /\ idx <= Len(seq.data)
  /\ ls' = LoopEntry(Reshape1(seq.data[idx]), encoder)
  /\ pc' = "loop"
  /\ UNCHANGED <<files, models, arg, ret, seq, idx, results, folding>>

\* Line 229 decodes the single sequence.
EnterFromElse ==
  /\ pc = "else"
  /\ ls' = LoopEntry(Reshape1(seq.data), encoder)
  /\ pc' = "loop"
  /\ UNCHANGED <<files, models, arg, ret, seq, idx, results, folding>>

LoopIteration ==
  /\ pc = "loop"
  /\ ~ls.stop_condition
  /\ ls' = LoopBody(ls, decoder, omega, renormalize)
  /\ pc' = IF ls'.raised # None THEN "raised" ELSE "loop"
  /\ UNCHANGED <<files, models, arg, ret, seq, idx, results, folding>>

ReturnDecodeSequence ==
  /\ pc = "loop"
  /\ ls.stop_condition
  /\ results' = Append(results, LoopResult(ls))
  /\ idx' = idx + 1
  /\ pc' = IF seq.ndim = 3 THEN "for_s" ELSE "return"
  /\ UNCHANGED <<files, models, arg, ret, seq, ls, folding>>

ReturnZip ==
  /\ pc = "for_s"
  /\ idx > Len(seq.data)
  /\ ret' = Zip(results)
  /\ pc' = "done"
  /\ UNCHANGED <<files, models, arg, seq, idx, ls, results, folding>>

ReturnPair ==
  /\ pc = "return"
  /\ ret' = results[1]
  /\ pc' = "done"
  /\ UNCHANGED <<files, models, arg, seq, idx, ls, results, folding>>

(***************************************************************************)
(* Inputs of the decoding: a two-phone table, decoder outputs nearer to    *)
(* one phone or the other, batches of up to MaxBatch padded infinitives,   *)
(* and every encoder and decoder over these.                               *)
(***************************************************************************)
MaxBatch == 2

SamplePhones == [k \in PhoneKeys |-> IF k = "#" THEN {"beg"} ELSE {"aberta"}]

SampleArray(k) ==
  LET coded == code_loop(SamplePhones[k], features, <<>>)
  IN  [i \in 1..21 |-> One * coded[i]]

SampleArrays == << <<"#", SampleArray("#")>>, <<"a", SampleArray("a")>> >>

SampleLookup == [k \in PhoneKeys |-> SampleArray(k)]

\* A vector with x at "beg", y at "aberta" and 0 elsewhere.
Mix(x, y) ==
  [i \in 1..21 |-> IF features[i] = "beg" THEN x
                   ELSE IF features[i] = "aberta" THEN y ELSE 0]

OutputVectors == {Mix(One, 1), Mix(1, One)}

\* omega with 1/2 at one feature and 1 elsewhere
HalfAt(name) ==
  [i \in 1..21 |-> IF features[i] = name THEN <<1, 2>> ELSE <<1, 1>>]

\* Without renormalization the two output vectors sample '#' and 'a'; divided
\* by an omega of 1/2 at "beg" both sample '#'.
Renormalizations == {<<FALSE, HalfAt("beg")>>, <<TRUE, HalfAt("beg")>>}

ModelStates == {<<0, 1>>, <<1, 0>>}

Infinitives == {<<"a", "a">>, <<"a", "#">>}

InputSeqs == {code_verb(v) : v \in Infinitives}

EncoderInputs == {Reshape1(s) : s \in InputSeqs}

Encoders == [EncoderInputs -> ModelStates]

DecoderInputs ==
  {<<Reshape11(SampleLookup[k])>> \o st : k \in PhoneKeys, st \in ModelStates}

DecoderOutputs ==
  {<<Reshape11(o)>> \o st : o \in OutputVectors, st \in ModelStates}

Decoders == [DecoderInputs -> DecoderOutputs]

Batches ==
  {[ndim |-> 3, data |-> b] : b \in SeqsOf(InputSeqs, 1, MaxBatch)}
    \cup {[ndim |-> 2, data |-> s] : s \in InputSeqs}

InitDecode ==
  /\ phones = SamplePhones
  /\ phone_arrays = SampleArrays
  /\ lookup = SampleLookup
  /\ pc = "idle"
  /\ arg = None
  /\ ret = NoValue
  /\ encoder \in Encoders
  /\ decoder \in Decoders
  /\ \E r \in Renormalizations : renormalize = r[1] /\ omega = r[2]
  /\ seq \in Batches
  /\ idx = 0
  /\ ls = NoLocals
  /\ results = <<>>
  /\ NoFolding

Next ==
  \/ CallDecodeSequences
  \/ EnterFromComprehension
  \/ EnterFromElse
  \/ LoopIteration
  \/ ReturnDecodeSequence
  \/ ReturnZip
  \/ ReturnPair

Spec == InitDecode /\ [][Next]_vars

(***************************************************************************)
(* C1: the decoded verb is the sampled phones in sampling order without    *)
(* the last one; it never contains '#', has at most 13 phones, and when    *)
(* the loop stopped on '#' it is the phones sampled before the first '#'.  *)
(***************************************************************************)
Sampled(l) == [k \in DOMAIN l.dec_calls |-> l.dec_calls[k].sampled_phone]

\* ls holds the locals of a decode_sequence, running or returned.
HasLocals == pc \in {"loop", "raised"} \/ results # <<>>

\* A decode_sequence has returned and ls holds the locals it ended with.
Returned == pc \in {"for_s", "return", "done"} /\ results # <<>>

FirstHash(phs) == CHOOSE i \in DOMAIN phs :
                    phs[i] = "#" /\ \A j \in 1..(i - 1) : phs[j] # "#"

DecodedVerbIsSampledPrefix ==
  Returned =>
    LET verb == results[Len(results)][2]
        phs == Sampled(ls)
    IN  /\ phs # <<>>
        /\ verb = SubSeq(phs, 1, Len(phs) - 1)
        /\ \A i \in DOMAIN verb : verb[i] # "#"
        /\ Len(verb) <= 13
        /\ phs[Len(phs)] = "#" =>
             verb = SubSeq(phs, 1, FirstHash(phs) - 1)

\* A decode_sequence that stopped on '#' after sampling other phones returned.
ReturnedAfterHash ==
  /\ Returned
  /\ Len(ls.dec_calls) >= 3
  /\ ls.dec_calls[Len(ls.dec_calls)].sampled_phone = "#"

(***************************************************************************)
(* C2: the sampling loop terminates: every pass of the loop is one more    *)
(* decoder call, the loop is left exactly when '#' is sampled or the       *)
(* decoded string is longer than 13, and so the decoder is called at least *)
(* once and at most 14 times for an input sequence.                        *)
(***************************************************************************)
CallsBounded ==
  HasLocals =>
    /\ Len(ls.dec_calls) <= 14
    /\ pc # "loop" => Len(ls.dec_calls) >= 1
    /\ ls.dec_calls # <<>> =>
         (ls.stop_condition <=>
            \/ ls.dec_calls[Len(ls.dec_calls)].sampled_phone = "#"
            \/ Len(ls.decoded_verb) > 13)

\* A step that starts in the loop is a pass with one more decoder call, or
\* the return of a loop whose stop condition holds.
LoopStep ==
  pc = "loop" =>
    \/ /\ pc' = "loop"
       /\ ~ls.stop_condition
       /\ Len(ls'.dec_calls) = Len(ls.dec_calls) + 1
    \/ /\ pc' \in {"for_s", "return"}
       /\ ls.stop_condition
       /\ ls' = ls

SamplingLoopTerminates == [][LoopStep /\ CallsBounded']_vars

\* The loop was left on the length of the decoded string, '#' never sampled.
LeftLoopOnLength ==
  /\ Returned
  /\ Len(ls.dec_calls) = 14
  /\ \A k \in DOMAIN ls.dec_calls : ls.dec_calls[k].sampled_phone # "#"

(***************************************************************************)
(* C8: the encoder runs once, before the first decoder step; the first     *)
(* decoder step gets the encoder's states and the vector of '#'; step k    *)
(* gets the states returned by step k-1 and the lookup vector of the phone *)
(* sampled at step k-1.                                                    *)
(***************************************************************************)
StepsAreChained ==
  HasLocals =>
    LET calls == ls.dec_calls
    IN  /\ Len(ls.enc_calls) = 1
        /\ calls # <<>> =>
             calls[1].input =
               <<Reshape11(lookup["#"])>> \o encoder[ls.enc_calls[1]]
        /\ \A k \in 2..Len(calls) :
             calls[k].input =
               << Reshape11(lookup[calls[k - 1].sampled_phone]),
                  calls[k - 1].output[2], calls[k - 1].output[3] >>

\* A third decoder step was made after the states changed at each step.
ThirdStepAfterChanges ==
  /\ HasLocals
  /\ Len(ls.dec_calls) >= 3
  /\ ls.dec_calls[2].input # ls.dec_calls[1].input
  /\ ls.dec_calls[1].output[2] # ls.dec_calls[1].input[2]
  /\ ls.dec_calls[2].output[2] # ls.dec_calls[1].output[2]

(***************************************************************************)
(* C6: on a 3-dimensional batch decode_sequences decodes every sequence    *)
(* once and result k is the decoding of sequence k; on a 2-dimensional     *)
(* sequence it returns the pair decode_sequence returns for it.            *)
(***************************************************************************)
BatchDecodedInOrder ==
  pc = "done" =>
    IF seq.ndim = 3
    THEN /\ Len(results) = Len(seq.data)
         /\ Len(ret) = 2
         /\ Len(ret[1]) = Len(seq.data)
         /\ Len(ret[2]) = Len(seq.data)
         /\ \A k \in DOMAIN seq.data :
              <<ret[1][k], ret[2][k]>> =
                decode_sequence(Reshape1(seq.data[k]), encoder, decoder,
                                omega, renormalize)
    ELSE /\ Len(results) = 1
         /\ ret = decode_sequence(Reshape1(seq.data), encoder, decoder,
                                  omega, renormalize)

\* A batch of two different sequences with different decodings was returned.
BatchOfTwoReturned ==
  /\ pc = "done"
  /\ seq.ndim = 3
  /\ Len(seq.data) = 2
  /\ seq.data[1] # seq.data[2]
  /\ ret[2][1] # ret[2][2]

(***************************************************************************)
(* decode_sequences as a function of its arguments.                        *)
(***************************************************************************)
decode_sequences(sq, enc, dec, om, renorm) ==
  IF sq.ndim = 3
  THEN Zip([k \in DOMAIN sq.data |->
              decode_sequence(Reshape1(sq.data[k]), enc, dec, om, renorm)])
  ELSE decode_sequence(Reshape1(sq.data), enc, dec, om, renorm)

(***************************************************************************)
(* decode_from_df_and_models(df, encoder, decoder, renormalize).  A data   *)
(* frame is the sequence of its rows.                                      *)
(***************************************************************************)
\* str.strip(ch)
RECURSIVE LStrip(_, _)
LStrip(str, ch) ==
  IF str # <<>> /\ Head(str) = ch THEN LStrip(Tail(str), ch) ELSE str

RECURSIVE RStrip(_, _)
RStrip(str, ch) ==
  IF str # <<>> /\ str[Len(str)] = ch
  THEN RStrip(SubSeq(str, 1, Len(str) - 1), ch) ELSE str

Strip(str, ch) == RStrip(LStrip(str, ch), ch)

\* The rows of right whose v_inf is that of the row l of left, joined to l.
Matches(l, right) ==
  LET same == SelectSeq(right, LAMBDA r : r[1] = l[1])
  IN  [k \in DOMAIN same |-> <<l[1], l[2], same[k][2], same[k][3]>>]

\* A join that pairs row k of left with row k of right.
RECURSIVE MergeByPosition(_, _)
MergeByPosition(left, right) ==
  IF left = <<>> THEN <<>>
  ELSE <<<<Head(left)[1], Head(left)[2], Head(right)[2], Head(right)[3]>>>>
         \o MergeByPosition(Tail(left), Tail(right))

\* pd.merge(left, right, on='v_inf', how='inner')
RECURSIVE Merge(_, _)
Merge(left, right) ==
  IF left = <<>> THEN <<>>
  ELSE Matches(Head(left), right) \o Merge(Tail(left), right)

\* Lines 251-256: the data frame made of the decoded verbs.
Compare(df, decoded_seqs) ==
  LET res == [r \in DOMAIN df |-> <<df[r][1], decoded_seqs[r]>>]
  IN  Strict(Merge(res, df),
             LAMBDA merged :
               [r \in DOMAIN merged |->
                  << merged[r][1], merged[r][2],
                     Strip(Strip(merged[r][3], "#"), "$"), merged[r][4] >>])

decode_from_df_and_models(df, enc, dec, renorm) ==
  Strict(preprocessing(df),
         LAMBDA p :
           Strict(decode_sequences([ndim |-> 3, data |-> p.padded_in],
                                   enc, dec, p.omega, renorm),
                  LAMBDA out : Compare(df, out[2])))

(***************************************************************************)
(* kfold(corpus, n, renorm).  StratifiedKFold(n).split gives n pairs       *)
(* <<i_train, i_test>> of ascending row positions: the test parts are a    *)
(* partition of the rows into non-empty parts, each train part is the rest.*)
(***************************************************************************)
Ascending(S, N) == SelectSeq([i \in 1..N |-> i], LAMBDA i : i \in S)

Splits(N, n) ==
  { [k \in 1..n |-> << Ascending({i \in 1..N : f[i] # k}, N),
                       Ascending({i \in 1..N : f[i] = k}, N) >>] :
      f \in {g \in [1..N -> 1..n] : \A k \in 1..n : \E i \in 1..N : g[i] = k} }

\* corpus.iloc[positions]
ILoc(df, positions) == [k \in DOMAIN positions |-> df[positions[k]]]

\* Line 373 with the two parts taken the other way round.
FoldPartsSwapped(df, split) == <<ILoc(df, split[2]), ILoc(df, split[1])>>

\* Line 373: corpus_train, corpus_test
FoldParts(df, split) == <<ILoc(df, split[1]), ILoc(df, split[2])>>

(***************************************************************************)
(* Inputs of the data frame operations: corpora of up to MaxCorpus rows,   *)
(* up to MaxFolds folds, and the models a training may end with.           *)
(***************************************************************************)
MaxCorpus == 3
MaxFolds == 2

\* Two rows with the same infinitive and different targets, and a third one.
RowRegular == << <<"a", "a">>, <<"#", "a", "#">>, "regular" >>
RowIrregular == << <<"a", "a">>, <<"#", "#">>, "irregular" >>
RowOther == << <<"a", "#">>, <<"#", "a", "#">>, "irregular" >>

Corpora == SeqsOf({RowRegular, RowIrregular, RowOther}, 1, MaxCorpus)

KfoldCorpora == SeqsOf({RowRegular, RowOther}, 2, MaxCorpus)

Other(st) == CHOOSE o \in ModelStates : o # st

\* Decoders that change state at every step and whose output depends on the
\* state they are given, differently for the two states.
TrainedDecoders ==
  { d \in Decoders :
      /\ \A x \in DecoderInputs : <<d[x][2], d[x][3]>> = Other(<<x[2], x[3]>>)
      /\ \A x, y \in DecoderInputs :
           (d[x][1] = d[y][1]) <=> (<<x[2], x[3]>> = <<y[2], y[3]>>) }

\* An encoder that tells the two infinitives apart.
TrainedEncoder ==
  [x \in EncoderInputs |->
     IF x = Reshape1(code_verb(<<"a", "a">>)) THEN <<0, 1>> ELSE <<1, 0>>]

TrainedModels ==
  {[encoder |-> TrainedEncoder, decoder |-> d] : d \in TrainedDecoders}

InitKfold ==
  /\ phones = SamplePhones
  /\ phone_arrays = SampleArrays
  /\ lookup = SampleLookup
  /\ pc = "idle"
  /\ arg = None
  /\ ret = NoValue
  /\ encoder = None /\ decoder = None /\ omega = None /\ renormalize = None
  /\ seq = None /\ idx = 0 /\ ls = NoLocals /\ results = <<>>
  /\ NoFolding

\* decode_from_df_and_models called on a corpus with some model.
CallDecodeFromDf ==
  /\ pc = "idle"
  /\ \E corpus \in Corpora, m \in TrainedModels, renorm \in BOOLEAN :
       /\ arg' = [corpus |-> corpus, renorm |-> renorm]
       /\ trained' = m
       /\ ret' = decode_from_df_and_models(corpus, m.encoder, m.decoder, renorm)
  /\ pc' = "decoded"
  /\ UNCHANGED <<files, models, decoding, cv, fold, all_decodings, runs>>

\* Lines 369-372: the splitter and the empty data frame.
CallKfold ==
  /\ pc = "idle"
  /\ \E corpus \in KfoldCorpora, n \in 2..MaxFolds, renorm \in BOOLEAN :
       /\ n <= Len(corpus)
       /\ arg' = [corpus |-> corpus, n |-> n, renorm |-> renorm]
       /\ cv' \in Splits(Len(corpus), n)
  /\ all_decodings' = <<>>
  /\ fold' = 1
  /\ pc' = "for"
  /\ UNCHANGED <<files, models, decoding, ret, trained, runs>>

\* Lines 373-379, one pass of the for loop: train on corpus_train (the fit
\* may end with any model), decode corpus_test, append the decodings.
FoldPass ==
  /\ pc = "for"
  /\ fold <= Len(cv)
  /\ \E m \in TrainedModels :
       \E parts \in {FoldParts(arg.corpus, cv[fold])} :
         \E decoded \in {decode_from_df_and_models(parts[2], m.encoder,
                                                   m.decoder, arg.renorm)} :
           /\ trained' = m
           /\ all_decodings' = all_decodings \o decoded
           /\ runs' = runs \o
                << [call |-> "train", fold |-> fold, data |-> parts[1]],
                   [call |-> "decoder", fold |-> fold, data |-> parts[2],
                    model |-> m, decoded |-> decoded] >>
  /\ fold' = fold + 1
  /\ UNCHANGED <<files, models, decoding, pc, arg, ret, cv>>

\* Line 381
ReturnKfold ==
  /\ pc = "for"
  /\ fold > Len(cv)
  /\ ret' = all_decodings
  /\ pc' = "done"
  /\ UNCHANGED <<files, models, decoding, arg, cv, fold, trained,
                 all_decodings, runs>>

NextKfold ==
  \/ CallDecodeFromDf
  \/ CallKfold
  \/ FoldPass
  \/ ReturnKfold

SpecKfold == InitKfold /\ [][NextKfold]_vars

(***************************************************************************)
(* C5: the data frame of decode_from_df_and_models has one row per row of  *)
(* the corpus, pairing the row's infinitive with the prediction decoded    *)
(* from it and with the row's own target, also when an infinitive occurs   *)
(* in several rows.                                                        *)
(***************************************************************************)
\* Row r of the corpus, preprocessed as p, with the prediction decoded from
\* its infinitive by the model used and with its own target.
IsRowOf(row, r, p) ==
  /\ row[1] = arg.corpus[r][1]
  /\ row[2] = decode_sequence(Reshape1(p.padded_in[r]), trained.encoder,
                              trained.decoder, p.omega, arg.renorm)[2]
  /\ row[3] = Strip(Strip(arg.corpus[r][2], "#"), "$")
  /\ row[4] = arg.corpus[r][3]

OneRowPerCorpusRow ==
  pc = "decoded" =>
    /\ Len(ret) = Len(arg.corpus)
    /\ \A p \in {preprocessing(arg.corpus)} :
         \A r \in DOMAIN arg.corpus : IsRowOf(ret[r], r, p)

\* The same, for corpora in which no infinitive occurs twice.
OneRowPerCorpusRowWhenUnique ==
  (/\ pc = "decoded"
   /\ \A q, r \in DOMAIN arg.corpus :
        arg.corpus[q][1] = arg.corpus[r][1] => q = r) =>
    /\ Len(ret) = Len(arg.corpus)
    /\ \A p \in {preprocessing(arg.corpus)} :
         \A r \in DOMAIN arg.corpus : IsRowOf(ret[r], r, p)

\* decode_from_df_and_models returned for a corpus that repeats an infinitive
\* with two different targets.
DecodedRepeatedInfinitive ==
  /\ pc = "decoded"
  /\ \E q, r \in DOMAIN arg.corpus :
       /\ q # r
       /\ arg.corpus[q][1] = arg.corpus[r][1]
       /\ arg.corpus[q][2] # arg.corpus[r][2]

(***************************************************************************)
(* C7: each of the n folds trains a new model on the fold's training rows  *)
(* only and decodes the fold's test rows only, the two being disjoint; the *)
(* returned table is the decodings of the n folds in fold order, and every *)
(* corpus row is decoded in exactly one fold.                              *)
(***************************************************************************)
Range(f) == {f[i] : i \in DOMAIN f}

RECURSIVE DecodingsUpTo(_)
DecodingsUpTo(k) ==
  IF k = 0 THEN <<>> ELSE DecodingsUpTo(k - 1) \o runs[2 * k].decoded

\* Fold k trained on its training rows and then decoded its test rows.
FoldRan(k) ==
  /\ runs[2 * k - 1].call = "train"
  /\ runs[2 * k - 1].data = ILoc(arg.corpus, cv[k][1])
  /\ runs[2 * k].call = "decoder"
  /\ runs[2 * k].data = ILoc(arg.corpus, cv[k][2])
  /\ runs[2 * k].decoded =
       decode_from_df_and_models(ILoc(arg.corpus, cv[k][2]),
                                 runs[2 * k].model.encoder,
                                 runs[2 * k].model.decoder, arg.renorm)
  /\ Range(cv[k][1]) \cap Range(cv[k][2]) = {}

KfoldIsCrossValidation ==
  pc = "done" =>
    /\ Len(cv) = arg.n
    /\ Len(runs) = 2 * arg.n
    /\ \A k \in 1..arg.n : FoldRan(k)
    /\ ret = DecodingsUpTo(arg.n)
    /\ \A i \in DOMAIN arg.corpus :
         Cardinality({k \in 1..arg.n : i \in Range(cv[k][2])}) = 1

\* kfold returned after folds of different sizes, trained to different
\* models, decoded different rows.
KfoldReturned ==
  /\ pc = "done"
  /\ Len(cv[1][2]) # Len(cv[2][2])
  /\ runs[2].data # runs[4].data
  /\ runs[2].model # runs[4].model
  /\ runs[2].decoded # runs[4].decoded

====
